---------------------------- MODULE Spec2Model ----------------------------
(***************************************************************************)
(* Model of listFailures (command github-post), embedded in               *)
(* src/pkg/sql/sem/types/types.pb.go, lines 918-1231.                      *)
(*                                                                         *)
(* Representation.                                                         *)
(*   - A test name is a sequence of one-character strings, so that         *)
(*     strings.Contains(.., "/"), strings.SplitN(.., "/", 2) and           *)
(*     sort.Strings are computed on the characters.                        *)
(*   - An output text is a sequence of tokens.  The two texts the code     *)
(*     searches for are single tokens; every other token is one character  *)
(*     of the text (or an opaque word).                                    *)
(*   - Seconds (float64) are integers counting milliseconds; instants are  *)
(*     integers counting milliseconds, the zero time.Time being 0.         *)
(***************************************************************************)
EXTENDS Integers, Sequences, FiniteSets, TLC

\* Longest event stream the decoder yields before EOF or a decode error.
MaxEvents == 3

\* the longest stream of the runs with many slow tests
MaxSlowTests == 22

\* the longest stream of the runs with several failed subtests
MaxSubtestEvents == 4

-----------------------------------------------------------------------------
(* Strings *)

\* Byte value of the characters test names are made of (sort.Strings
\* compares bytes).
CharCode(c) ==
  CASE c = "/" -> 47
    [] c = "A" -> 65
    [] c = "B" -> 66
    [] c = "x" -> 120
    [] c = "y" -> 121
    [] OTHER -> 0

\* strings.Contains(test, "/")
HasSlash(t) == \E i \in 1..Len(t) : t[i] = "/"

\* strings.SplitN(test, "/", 2): one piece without "/", else the text before
\* the first "/" and the text after it.
SplitN2(t) ==
  IF HasSlash(t)
  THEN LET i == CHOOSE k \in 1..Len(t) :
                  t[k] = "/" /\ \A j \in 1..(k-1) : t[j] # "/"
       IN <<SubSeq(t, 1, i-1), SubSeq(t, i+1, Len(t))>>
  ELSE <<t>>

\* a < b for Go strings (byte-wise lexicographic order)
StrLess(a, b) ==
  \E k \in 0..Len(a) :
     /\ k <= Len(b)
     /\ \A j \in 1..k : a[j] = b[j]
     /\ \/ k = Len(a) /\ k < Len(b)
        \/ k < Len(a) /\ k < Len(b) /\ CharCode(a[k+1]) < CharCode(b[k+1])

\* var timeoutMsg = "panic: test timed out after"
timeoutMsg == "panic: test timed out after"

\* the text searched for in the preamble: "-exec 'stress '"
stressMarker == "-exec 'stress '"

\* strings.Contains(output, token) for the two searched texts
Contains(out, tok) == \E i \in 1..Len(out) : out[i] = tok

Digits == {"0", "1", "2", "3", "4", "5", "6", "7", "8", "9"}

DigitVal(c) ==
  CASE c = "0" -> 0 [] c = "1" -> 1 [] c = "2" -> 2 [] c = "3" -> 3
    [] c = "4" -> 4 [] c = "5" -> 5 [] c = "6" -> 6 [] c = "7" -> 7
    [] c = "8" -> 8 [] c = "9" -> 9

AllDigits(s, from, to) == \A j \in from..to : s[j] \in Digits

\* The ways `panic: test timed out after (\d*(?:\.\d*)?)(.)` matches the text
\* s with the marker token at position i: d digits, then (fr = 1) a "." and f
\* digits, then one character that is not a newline.
MatchesAt(s, i) ==
  IF i + 1 > Len(s) \/ s[i] # timeoutMsg \/ s[i+1] # " " THEN {}
  ELSE LET p == i + 2 IN
    { c \in [d : 0..Len(s), fr : {0, 1}, f : 0..Len(s)] :
        /\ p + c.d + c.fr + c.f <= Len(s)
        /\ AllDigits(s, p, p + c.d - 1)
        /\ (c.fr = 0 => c.f = 0)
        /\ (c.fr = 1 => s[p + c.d] = "." /\
                         AllDigits(s, p + c.d + 1, p + c.d + c.f))
        /\ s[p + c.d + c.fr + c.f] # "\n" }

\* Greedy quantifiers: the longest \d*, then the optional group present
\* rather than absent, then its longest \d*.
Preferred(a, b) ==
  \/ a.d > b.d
  \/ a.d = b.d /\ a.fr > b.fr
  \/ a.d = b.d /\ a.fr = b.fr /\ a.f >= b.f

NoMatch == [matched |-> FALSE]

\* re.FindStringSubmatch(te.Output): the leftmost match, nil when none.
\* matches[1] is split into its integer digits and its fraction digits.
FindStringSubmatch(s) ==
  LET starts == {i \in 1..Len(s) : MatchesAt(s, i) # {}} IN
  IF starts = {} THEN NoMatch
  ELSE LET i == CHOOSE k \in starts : \A j \in starts : k <= j
           c == CHOOSE a \in MatchesAt(s, i) :
                   \A b \in MatchesAt(s, i) : Preferred(a, b)
           p == i + 2
       IN [matched |-> TRUE,
           int     |-> SubSeq(s, p, p + c.d - 1),
           dot     |-> c.fr = 1,
           frac    |-> SubSeq(s, p + c.d + 1, p + c.d + c.f),
           unit    |-> s[p + c.d + c.fr + c.f]]

RECURSIVE DecVal(_)
DecVal(ds) ==
  IF ds = <<>> THEN 0
  ELSE 10 * DecVal(SubSeq(ds, 1, Len(ds) - 1)) + DigitVal(ds[Len(ds)])

RECURSIVE Pow10(_)
Pow10(n) == IF n = 0 THEN 1 ELSE 10 * Pow10(n - 1)

\* strconv.ParseFloat(matches[1], 64): an error for "" and for ".", otherwise
\* the value, here in milliseconds (digits past the third decimal are cut).
ParseFloat(m) ==
  IF m.int = <<>> /\ m.frac = <<>>
  THEN [err |-> TRUE, val |-> 0]
  ELSE [err |-> FALSE,
        val |-> 1000 * DecVal(m.int) +
                (1000 * DecVal(m.frac)) \div Pow10(Len(m.frac))]


-----------------------------------------------------------------------------
(* Go maps from test name to []testEvent *)

EmptyMap == [k \in {} |-> <<>>]

\* m[k]; the nil slice when k is no key
Get(m, k) == IF k \in DOMAIN m THEN m[k] ELSE <<>>

\* m[k] = v
Put(m, k, v) == [x \in (DOMAIN m) \cup {k} |-> IF x = k THEN v ELSE m[x]]

\* delete(m, k)
Del(m, k) == [x \in (DOMAIN m) \ {k} |-> m[x]]

-----------------------------------------------------------------------------
(* Events *)

\* type testEvent struct { Action, Test, Output, Time, Elapsed }
Event(a, t, o, tm, el) ==
  [Action |-> a, Test |-> t, Output |-> o, Time |-> tm, Elapsed |-> el]

\* the zero testEvent
ZeroEvent == Event("", <<>>, <<>>, 0, 0)

\* const shortTestFilterSecs float64 = 0.5 (milliseconds here)
shortTestFilterSecs == 500

\* genSlowTestsReport lists at most this many tests per section
slowReportLimit == 20

\* the value of the PKG environment variable
PackageName == "github.com/cockroachdb/cockroach/pkg/storage"

\* const unknown = "(unknown)": the test name of the package-level reports
Unknown == <<"(unknown)">>

\* what getAuthorEmail can hand back: "" with an error, or an address
AuthorEmails == {"", "author@example.com"}

\* Test names of the streams
NoTest == <<>>
TestA  == <<"A">>
TestAx == <<"A", "/", "x">>
TestAy == <<"A", "/", "y">>
TestAxz == <<"A", "/", "x", "/", "z">>
TestB  == <<"B">>

\* Output texts of the streams
TextBoom     == <<"boom">>
TextPkg      == <<"make: ***">>
TextStress   == <<"go test ", stressMarker, "\n">>
TextTimeout  == <<timeoutMsg, " ", "3", "0", "s", "\n">>
TextTimeoutM == <<timeoutMsg, " ", "2", "m", "\n">>
TextTimeoutH == <<timeoutMsg, " ", "1", "h", "0", "m", "0", "s", "\n">>
TextTimeoutX == <<timeoutMsg, " ", "x">>
TextTimeoutE == <<timeoutMsg, "\n">>
TextTimeoutF == <<timeoutMsg, " ", "1", ".", "5", "s", "\n">>

VARIABLES
  pc,                 \* position in listFailures
  consumed,           \* the events decoded so far, in arrival order
  packageOutput,      \* bytes.Buffer: the text written so far
  outstandingOutput,  \* map[string][]testEvent
  failures,           \* map[string][]testEvent
  slowPassingTests,   \* []testEvent
  slowFailingTests,   \* []testEvent
  init,
  trustTimestamps,
  elapsedTotalSec,
  timedOutTestName,
  timedOutEvent,
  curTestStart,
  lastTestName,
  lastEvent,
  failedTestNames,    \* the sorted names not yet posted
  posted,             \* the calls of f, in order, each with its result
  report,             \* the slow tests report text
  written             \* writeSlowTestsReport: "none", "ok" or "failed"

loopVars == <<packageOutput, outstandingOutput, failures, slowPassingTests,
              slowFailingTests, init, trustTimestamps, elapsedTotalSec,
              timedOutTestName, timedOutEvent, curTestStart, lastTestName,
              lastEvent>>

postVars == <<failedTestNames, posted, report, written>>

vars == <<pc, consumed, packageOutput, outstandingOutput, failures,
          slowPassingTests, slowFailingTests, init, trustTimestamps,
          elapsedTotalSec, timedOutTestName, timedOutEvent, curTestStart,
          lastTestName, lastEvent, failedTestNames, posted, report, written>>

\* listFailures entered: the declarations of lines 926-968
Init ==
  /\ pc = "start"
  /\ consumed = <<>>
  /\ packageOutput = <<>>
  /\ outstandingOutput = EmptyMap
  /\ failures = EmptyMap
  /\ slowPassingTests = <<>>
  /\ slowFailingTests = <<>>
  /\ init = TRUE
  /\ trustTimestamps = TRUE
  /\ elapsedTotalSec = 0
  /\ timedOutTestName = <<>>
  /\ timedOutEvent = ZeroEvent
  /\ curTestStart = 0
  /\ lastTestName = <<>>
  /\ lastEvent = ZeroEvent
  /\ failedTestNames = <<>>
  /\ posted = <<>>
  /\ report = <<>>
  /\ written = "none"

\* os.LookupEnv(pkgEnv): listFailures returns an error when PKG is not set
LookupEnv ==
  /\ pc = "start"
  /\ \E ok \in BOOLEAN : pc' = IF ok THEN "loop" ELSE "envErr"
  /\ UNCHANGED <<consumed, loopVars, postVars>>

-----------------------------------------------------------------------------
(* The decode loop, lines 969-1081 *)

\* lines 978-983: init and trustTimestamps after the event
InitAfter(te) == init /\ te.Test = <<>>

\* TrustAfter without the test of init of line 981
TrustAfter_Anywhere(te) ==
  IF Contains(te.Output, stressMarker)
  THEN FALSE
  ELSE trustTimestamps

TrustAfter(te) ==
  IF InitAfter(te) /\ Contains(te.Output, stressMarker)
  THEN FALSE
  ELSE trustTimestamps

\* lines 984-989: elapsedTotalSec after the event
ElapsedTotalAfter(te) ==
  IF timedOutTestName = <<>> /\ te.Elapsed > 0 /\ Len(SplitN2(te.Test)) = 1
  THEN elapsedTotalSec + te.Elapsed
  ELSE elapsedTotalSec

\* Adjusted without lines 991-993: the event as the runner reported it
Adjusted_AsReported(te) == te

\* lines 991-993: the event with its Elapsed overwritten
Adjusted(te) ==
  IF timedOutTestName = te.Test /\ te.Elapsed # 0
  THEN [te EXCEPT !.Elapsed = timedOutEvent.Elapsed]
  ELSE te

\* TimeoutElapsed without the conversion of minutes of lines 1039-1040
TimeoutElapsed_NoMinutes(te, trust, total) ==
  IF trust
  THEN [fatal |-> FALSE, val |-> te.Time - curTestStart]
  ELSE LET matches == FindStringSubmatch(te.Output) IN
       IF ~matches.matched
       THEN [fatal |-> FALSE, val |-> -1000]
       ELSE LET dur == ParseFloat(matches) IN
            IF dur.err
            THEN [fatal |-> TRUE, val |-> 0]
            ELSE IF matches.unit \notin {"s", "m"}
                 THEN [fatal |-> TRUE, val |-> 0]
                 ELSE [fatal |-> FALSE, val |-> dur.val - total]

\* lines 1016-1046: the Elapsed of a timeout event, or a log.Fatal
TimeoutElapsed(te, trust, total) ==
  IF trust
  THEN [fatal |-> FALSE, val |-> te.Time - curTestStart]
  ELSE LET matches == FindStringSubmatch(te.Output) IN
       IF ~matches.matched
       THEN [fatal |-> FALSE, val |-> -1000]
       ELSE LET dur == ParseFloat(matches) IN
            IF dur.err
            THEN [fatal |-> TRUE, val |-> 0]
            ELSE IF matches.unit = "m"
                 THEN [fatal |-> FALSE, val |-> 60 * dur.val - total]
                 ELSE IF matches.unit # "s"
                      THEN [fatal |-> TRUE, val |-> 0]
                      ELSE [fatal |-> FALSE, val |-> dur.val - total]

\* OnRun that takes the start time of top-level tests only
OnRun_TopLevelOnly(te) ==
  /\ lastTestName' = te.Test
  /\ curTestStart' = IF TrustAfter(te) /\ ~HasSlash(te.Test)
                     THEN te.Time ELSE curTestStart
  /\ pc' = "loop"
  /\ UNCHANGED <<packageOutput, outstandingOutput, failures, slowPassingTests,
                 slowFailingTests, timedOutTestName, timedOutEvent>>

\* case "run", lines 998-1002
OnRun(te) ==
  /\ lastTestName' = te.Test
  /\ curTestStart' = IF TrustAfter(te) THEN te.Time ELSE curTestStart
  /\ pc' = "loop"
  /\ UNCHANGED <<packageOutput, outstandingOutput, failures, slowPassingTests,
                 slowFailingTests, timedOutTestName, timedOutEvent>>

\* RecordsTimeout with the first timeout kept
RecordsTimeout_FirstOnly(te) ==
  Contains(te.Output, timeoutMsg) /\ timedOutTestName = <<>>

\* whether an "output" event sets the timeout, line 1005
RecordsTimeout(te) == Contains(te.Output, timeoutMsg)

\* case "output", lines 1003-1048
OnOutput(te) ==
  /\ outstandingOutput' =
       Put(outstandingOutput, te.Test,
           Append(Get(outstandingOutput, te.Test), te))
  /\ IF RecordsTimeout(te)
     THEN LET el == TimeoutElapsed(te, TrustAfter(te), ElapsedTotalAfter(te)) IN
          /\ timedOutTestName' = te.Test
          /\ IF el.fatal
             THEN pc' = "fatal" /\ UNCHANGED timedOutEvent
             ELSE /\ pc' = "loop"
                  /\ timedOutEvent' = [te EXCEPT !.Elapsed = el.val]
     ELSE pc' = "loop" /\ UNCHANGED <<timedOutTestName, timedOutEvent>>
  /\ UNCHANGED <<packageOutput, failures, slowPassingTests, slowFailingTests,
                 curTestStart, lastTestName>>

\* OnPassSkip without the check of lines 1050-1052: a pass after a timeout
\* is handled like any pass
OnPassSkip_NoPanic(te) ==
  /\ pc' = "loop"
  /\ outstandingOutput' = Del(outstandingOutput, te.Test)
  /\ slowPassingTests' =
       IF te.Elapsed > shortTestFilterSecs /\ ~HasSlash(te.Test)
       THEN Append(slowPassingTests, te)
       ELSE slowPassingTests
  /\ UNCHANGED <<packageOutput, failures, slowFailingTests, timedOutTestName,
                 timedOutEvent, curTestStart, lastTestName>>

\* OnPassSkip without the delete of line 1053: the output of a test that
\* passed stays outstanding
OnPassSkip_KeepsOutput(te) ==
  IF timedOutTestName # <<>>
  THEN /\ pc' = "panic"
       /\ UNCHANGED <<packageOutput, outstandingOutput, failures,
                      slowPassingTests, slowFailingTests, timedOutTestName,
                      timedOutEvent, curTestStart, lastTestName>>
  ELSE /\ pc' = "loop"
       /\ slowPassingTests' =
            IF te.Elapsed > shortTestFilterSecs /\ ~HasSlash(te.Test)
            THEN Append(slowPassingTests, te)
            ELSE slowPassingTests
       /\ UNCHANGED <<packageOutput, outstandingOutput, failures,
                      slowFailingTests, timedOutTestName, timedOutEvent,
                      curTestStart, lastTestName>>

\* OnPassSkip without the filter of line 1056: every top-level test that
\* passed is a slow one
OnPassSkip_AnyElapsed(te) ==
  IF timedOutTestName # <<>>
  THEN /\ pc' = "panic"
       /\ UNCHANGED <<packageOutput, outstandingOutput, failures,
                      slowPassingTests, slowFailingTests, timedOutTestName,
                      timedOutEvent, curTestStart, lastTestName>>
  ELSE /\ pc' = "loop"
       /\ outstandingOutput' = Del(outstandingOutput, te.Test)
       /\ slowPassingTests' =
            IF ~HasSlash(te.Test)
            THEN Append(slowPassingTests, te)
            ELSE slowPassingTests
       /\ UNCHANGED <<packageOutput, failures, slowFailingTests,
                      timedOutTestName, timedOutEvent, curTestStart,
                      lastTestName>>

\* OnPassSkip with >= for the > of line 1056
OnPassSkip_AtLeast(te) ==
  IF timedOutTestName # <<>>
  THEN /\ pc' = "panic"
       /\ UNCHANGED <<packageOutput, outstandingOutput, failures,
                      slowPassingTests, slowFailingTests, timedOutTestName,
                      timedOutEvent, curTestStart, lastTestName>>
  ELSE /\ pc' = "loop"
       /\ outstandingOutput' = Del(outstandingOutput, te.Test)
       /\ slowPassingTests' =
            IF te.Elapsed >= shortTestFilterSecs /\ ~HasSlash(te.Test)
            THEN Append(slowPassingTests, te)
            ELSE slowPassingTests
       /\ UNCHANGED <<packageOutput, failures, slowFailingTests,
                      timedOutTestName, timedOutEvent, curTestStart,
                      lastTestName>>

\* case "pass", "skip", lines 1049-1059
OnPassSkip(te) ==
  IF timedOutTestName # <<>>
  THEN /\ pc' = "panic"
       /\ UNCHANGED <<packageOutput, outstandingOutput, failures,
                      slowPassingTests, slowFailingTests, timedOutTestName,
                      timedOutEvent, curTestStart, lastTestName>>
  ELSE /\ pc' = "loop"
       /\ outstandingOutput' = Del(outstandingOutput, te.Test)
       /\ slowPassingTests' =
            IF te.Elapsed > shortTestFilterSecs /\ ~HasSlash(te.Test)
            THEN Append(slowPassingTests, te)
            ELSE slowPassingTests
       /\ UNCHANGED <<packageOutput, failures, slowFailingTests,
                      timedOutTestName, timedOutEvent, curTestStart,
                      lastTestName>>

\* OnFail without the test of line 1068: the timed out test is a failure too
OnFail_TimedOutToo(te) ==
  /\ pc' = "loop"
  /\ slowFailingTests' =
       IF ~HasSlash(te.Test) \/ timedOutTestName = te.Test
       THEN Append(slowFailingTests, te)
       ELSE slowFailingTests
  /\ failures' = Put(failures, te.Test, Get(outstandingOutput, te.Test))
  /\ outstandingOutput' = Del(outstandingOutput, te.Test)
  /\ UNCHANGED <<packageOutput, slowPassingTests, timedOutTestName,
                 timedOutEvent, curTestStart, lastTestName>>

\* case "fail", lines 1060-1073
OnFail(te) ==
  /\ pc' = "loop"
  /\ slowFailingTests' =
       IF ~HasSlash(te.Test) \/ timedOutTestName = te.Test
       THEN Append(slowFailingTests, te)
       ELSE slowFailingTests
  /\ failures' =
       IF timedOutTestName # te.Test
       THEN Put(failures, te.Test, Get(outstandingOutput, te.Test))
       ELSE failures
  /\ outstandingOutput' = Del(outstandingOutput, te.Test)
  /\ UNCHANGED <<packageOutput, slowPassingTests, timedOutTestName,
                 timedOutEvent, curTestStart, lastTestName>>

\* OnPackageEvent with the buffer set to the last output instead of
\* written to
OnPackageEvent_Overwrite(te) ==
  /\ pc' = "loop"
  /\ packageOutput' =
       IF te.Action = "output" THEN te.Output ELSE packageOutput
  /\ UNCHANGED <<outstandingOutput, failures, slowPassingTests,
                 slowFailingTests, timedOutTestName, timedOutEvent,
                 curTestStart, lastTestName>>

\* an event without Test, lines 1075-1080
OnPackageEvent(te) ==
  /\ pc' = "loop"
  /\ packageOutput' =
       IF te.Action = "output" THEN packageOutput \o te.Output
       ELSE packageOutput
  /\ UNCHANGED <<outstandingOutput, failures, slowPassingTests,
                 slowFailingTests, timedOutTestName, timedOutEvent,
                 curTestStart, lastTestName>>

\* a test event whose Action the switch has no case for
OnOtherAction(te) ==
  /\ pc' = "loop"
  /\ UNCHANGED <<packageOutput, outstandingOutput, failures, slowPassingTests,
                 slowFailingTests, timedOutTestName, timedOutEvent,
                 curTestStart, lastTestName>>

\* one iteration of the loop with dec.Decode yielding the event in, lines
\* 970-1080
HandleEvent(in) ==
  /\ pc = "loop"
  /\ consumed' = Append(consumed, in)
  /\ lastEvent' = in
  /\ init' = InitAfter(in)
  /\ trustTimestamps' = TrustAfter(in)
  /\ elapsedTotalSec' = ElapsedTotalAfter(in)
  /\ LET te == Adjusted(in) IN
     IF Len(te.Test) > 0
     THEN CASE te.Action = "run" -> OnRun(te)
            [] te.Action = "output" -> OnOutput(te)
            [] te.Action \in {"pass", "skip"} -> OnPassSkip(te)
            [] te.Action = "fail" -> OnFail(te)
            [] OTHER -> OnOtherAction(te)
     ELSE OnPackageEvent(te)
  /\ UNCHANGED postVars

\* DecodeError with what was gathered so far written out before the return
DecodeError_WritesReport ==
  /\ pc = "loop"
  /\ pc' = "decodeErr"
  /\ written' = "ok"
  /\ UNCHANGED <<consumed, loopVars, failedTestNames, posted, report>>

\* dec.Decode returns an error other than io.EOF, lines 973-975
DecodeError ==
  /\ pc = "loop"
  /\ pc' = "decodeErr"
  /\ UNCHANGED <<consumed, loopVars, postVars>>

-----------------------------------------------------------------------------
(* After the loop, lines 1083-1205 *)

\* EndOfStream that leaves the last test alone when the last event is a fail
EndOfStream_ChecksLastEvent ==
  /\ pc = "loop"
  /\ pc' = "reconciled"
  /\ IF timedOutTestName # <<>>
     THEN IF timedOutTestName \in DOMAIN outstandingOutput
          THEN /\ slowFailingTests' = Append(slowFailingTests, timedOutEvent)
               /\ outstandingOutput' = Del(outstandingOutput, timedOutTestName)
               /\ UNCHANGED failures
          ELSE UNCHANGED <<slowFailingTests, outstandingOutput, failures>>
     ELSE IF lastEvent.Action # "fail" /\
             lastTestName \in DOMAIN outstandingOutput
          THEN /\ failures' =
                    Put(failures, lastTestName, outstandingOutput[lastTestName])
               /\ UNCHANGED <<slowFailingTests, outstandingOutput>>
          ELSE UNCHANGED <<slowFailingTests, outstandingOutput, failures>>
  /\ UNCHANGED <<consumed, packageOutput, slowPassingTests, init,
                 trustTimestamps, elapsedTotalSec, timedOutTestName,
                 timedOutEvent, curTestStart, lastTestName, lastEvent,
                 postVars>>

\* EndOfStream that records the timed out test as a failure too
EndOfStream_AlsoFails ==
  /\ pc = "loop"
  /\ pc' = "reconciled"
  /\ IF timedOutTestName # <<>>
     THEN IF timedOutTestName \in DOMAIN outstandingOutput
          THEN /\ slowFailingTests' = Append(slowFailingTests, timedOutEvent)
               /\ outstandingOutput' = Del(outstandingOutput, timedOutTestName)
               /\ failures' = Put(failures, timedOutTestName,
                                  outstandingOutput[timedOutTestName])
          ELSE UNCHANGED <<slowFailingTests, outstandingOutput, failures>>
     ELSE IF lastTestName \in DOMAIN outstandingOutput
          THEN /\ failures' =
                    Put(failures, lastTestName, outstandingOutput[lastTestName])
               /\ UNCHANGED <<slowFailingTests, outstandingOutput>>
          ELSE UNCHANGED <<slowFailingTests, outstandingOutput, failures>>
  /\ UNCHANGED <<consumed, packageOutput, slowPassingTests, init,
                 trustTimestamps, elapsedTotalSec, timedOutTestName,
                 timedOutEvent, curTestStart, lastTestName, lastEvent,
                 postVars>>

\* EndOfStream without lines 1090-1094: the timed out test stays outstanding
EndOfStream_NoTimedOutEntry ==
  /\ pc = "loop"
  /\ pc' = "reconciled"
  /\ IF timedOutTestName = <<>> /\ lastTestName \in DOMAIN outstandingOutput
     THEN /\ failures' =
               Put(failures, lastTestName, outstandingOutput[lastTestName])
          /\ UNCHANGED <<slowFailingTests, outstandingOutput>>
     ELSE UNCHANGED <<slowFailingTests, outstandingOutput, failures>>
  /\ UNCHANGED <<consumed, packageOutput, slowPassingTests, init,
                 trustTimestamps, elapsedTotalSec, timedOutTestName,
                 timedOutEvent, curTestStart, lastTestName, lastEvent,
                 postVars>>

\* dec.Decode returns io.EOF (line 972), then lines 1083-1104
EndOfStream ==
  /\ pc = "loop"
  /\ pc' = "reconciled"
  /\ IF timedOutTestName # <<>>
     THEN IF timedOutTestName \in DOMAIN outstandingOutput
          THEN /\ slowFailingTests' = Append(slowFailingTests, timedOutEvent)
               /\ outstandingOutput' = Del(outstandingOutput, timedOutTestName)
               /\ UNCHANGED failures
          ELSE UNCHANGED <<slowFailingTests, outstandingOutput, failures>>
     ELSE IF lastTestName \in DOMAIN outstandingOutput
          THEN /\ failures' =
                    Put(failures, lastTestName, outstandingOutput[lastTestName])
               /\ UNCHANGED <<slowFailingTests, outstandingOutput>>
          ELSE UNCHANGED <<slowFailingTests, outstandingOutput, failures>>
  /\ UNCHANGED <<consumed, packageOutput, slowPassingTests, init,
                 trustTimestamps, elapsedTotalSec, timedOutTestName,
                 timedOutEvent, curTestStart, lastTestName, lastEvent,
                 postVars>>

\* PackageFailed without the test of len(failures) of line 1108
PackageFailed_AnyFailure ==
  /\ lastEvent.Action = "fail"
  /\ timedOutTestName = <<>>

\* the condition of line 1108
PackageFailed ==
  /\ lastEvent.Action = "fail"
  /\ DOMAIN failures = {}
  /\ timedOutTestName = <<>>

\* a call f(ctx, title, packageName, testName, testMessage, authorEmail) and
\* whether it returned an error
Call(what, titleTest, testName, message, authorEmail, err) ==
  [title       |-> [what |-> what, test |-> titleTest],
   packageName |-> PackageName,
   testName    |-> testName,
   message     |-> message,
   authorEmail |-> authorEmail,
   err         |-> err]

\* lines 1109-1117
PostPackageFailed ==
  /\ pc = "reconciled"
  /\ PackageFailed
  /\ \E err \in BOOLEAN :
       /\ posted' = Append(posted,
            Call("package failed under stress", <<>>, Unknown, packageOutput,
                 "", err))
       /\ pc' = IF err THEN "postErr" ELSE "sort"
  /\ UNCHANGED <<consumed, loopVars, failedTestNames, report, written>>

\* the orders in which a range over a map can produce the keys in S
Orders(S) ==
  {o \in [1..Cardinality(S) -> S] :
     \A i, j \in 1..Cardinality(S) : o[i] = o[j] => i = j}

\* FoldSubtests without the delete of line 1124: the subtest stays a key
RECURSIVE FoldSubtests_KeepsSubtest(_, _)
FoldSubtests_KeepsSubtest(f, order) ==
  IF order = <<>> THEN f
  ELSE LET test == Head(order)
           parentTest == SplitN2(test)[1]
           g == Put(f, parentTest, Get(f, parentTest) \o f[test])
       IN FoldSubtests_KeepsSubtest(g, Tail(order))

\* FoldSubtests that folds a subtest only into a parent that failed itself
RECURSIVE FoldSubtests_DropsOrphans(_, _)
FoldSubtests_DropsOrphans(f, order) ==
  IF order = <<>> THEN f
  ELSE LET test == Head(order)
           parentTest == SplitN2(test)[1]
           g == IF parentTest \in DOMAIN f
                THEN Put(f, parentTest, f[parentTest] \o f[test])
                ELSE f
       IN FoldSubtests_DropsOrphans(Del(g, test), Tail(order))

\* FoldSubtests with an assignment for the append of line 1123
RECURSIVE FoldSubtests_Overwrites(_, _)
FoldSubtests_Overwrites(f, order) ==
  IF order = <<>> THEN f
  ELSE LET test == Head(order)
           parentTest == SplitN2(test)[1]
           g == Put(f, parentTest, f[test])
       IN FoldSubtests_Overwrites(Del(g, test), Tail(order))

\* the body of the loop of lines 1119-1128 run on the subtests in the order
\* given
RECURSIVE FoldSubtests(_, _)
FoldSubtests(f, order) ==
  IF order = <<>> THEN f
  ELSE LET test == Head(order)
           parentTest == SplitN2(test)[1]
           g == Put(f, parentTest, Get(f, parentTest) \o f[test])
       IN FoldSubtests(Del(g, test), Tail(order))

\* what the loop of lines 1119-1128 can leave in failures: a subtest is
\* folded into its parent when the range produces it, and the range produces
\* the keys in an order that is not specified
Consolidations(f) ==
  {FoldSubtests(f, o) : o \in Orders({t \in DOMAIN f : Len(SplitN2(t)) = 2})}

\* SortStrings with the order reversed
SortStrings_Descending(S) ==
  CHOOSE o \in Orders(S) :
     \A i \in 1..(Cardinality(S) - 1) : StrLess(o[i+1], o[i])

\* sort.Strings of the names in S, lines 1130-1134
SortStrings(S) ==
  CHOOSE o \in Orders(S) :
     \A i \in 1..(Cardinality(S) - 1) : StrLess(o[i], o[i+1])

\* lines 1119-1134
Consolidate ==
  /\ pc = "reconciled"
  /\ ~PackageFailed
  /\ \E g \in Consolidations(failures) :
       /\ failures' = g
       /\ failedTestNames' = SortStrings(DOMAIN g)
       /\ pc' = IF DOMAIN g = {} THEN "sort" ELSE "post"
  /\ UNCHANGED <<consumed, packageOutput, outstandingOutput, slowPassingTests,
                 slowFailingTests, init, trustTimestamps, elapsedTotalSec,
                 timedOutTestName, timedOutEvent, curTestStart, lastTestName,
                 lastEvent, posted, report, written>>

\* strings.Join of the Output of the events, lines 1141-1145
RECURSIVE JoinOutputs(_)
JoinOutputs(events) ==
  IF events = <<>> THEN <<>>
  ELSE Head(events).Output \o JoinOutputs(Tail(events))

\* PostFailure with the error of f logged instead of returned
PostFailure_ContinuesOnError ==
  /\ pc = "post"
  /\ LET test == Head(failedTestNames) IN
     \E authorEmail \in AuthorEmails, err \in BOOLEAN :
       /\ posted' = Append(posted,
            Call("failed under stress", test, test,
                 JoinOutputs(failures[test]), authorEmail, err))
       /\ failedTestNames' = Tail(failedTestNames)
       /\ pc' = IF Tail(failedTestNames) = <<>> THEN "sort" ELSE "post"
  /\ UNCHANGED <<consumed, loopVars, report, written>>

\* one iteration of the loop of lines 1135-1150
PostFailure ==
  /\ pc = "post"
  /\ LET test == Head(failedTestNames) IN
     \E authorEmail \in AuthorEmails, err \in BOOLEAN :
       /\ posted' = Append(posted,
            Call("failed under stress", test, test,
                 JoinOutputs(failures[test]), authorEmail, err))
       /\ IF err
          THEN pc' = "postErr" /\ UNCHANGED failedTestNames
          ELSE /\ failedTestNames' = Tail(failedTestNames)
               /\ pc' = IF Tail(failedTestNames) = <<>> THEN "sort" ELSE "post"
  /\ UNCHANGED <<consumed, loopVars, report, written>>

\* what sort.Slice with less = (Elapsed[i] > Elapsed[j]) can leave: the
\* entries in an order without an ascent (the sort is not stable)
RECURSIVE SortedByElapsed(_)
SortedByElapsed(list) ==
  IF list = <<>> THEN {<<>>}
  ELSE UNION
    {{<<list[i]>> \o rest :
        rest \in SortedByElapsed(SubSeq(list, 1, i - 1) \o
                                 SubSeq(list, i + 1, Len(list)))} :
       i \in {k \in 1..Len(list) :
                \A j \in 1..Len(list) : list[k].Elapsed >= list[j].Elapsed}}

\* "%.2f" of seconds: hundredths of a second, rounded
Hundredths(ms) ==
  IF ms >= 0 THEN (ms + 5) \div 10 ELSE 0 - ((5 - ms) \div 10)

Line(text, test, hundredths) ==
  [text |-> text, test |-> test, hundredths |-> hundredths]

\* Section without the limit of lines 1211 and 1222
Section_NoLimit(list) ==
  IF list = <<>> THEN <<Line("<none>", <<>>, 0)>>
  ELSE [i \in 1..Len(list) |->
          Line("%s - %.2fs", list[i].Test, Hundredths(list[i].Elapsed))]

\* one section of the report: at most slowReportLimit lines "%s - %.2fs\n",
\* or "<none>\n"
Section(list) ==
  IF list = <<>> THEN <<Line("<none>", <<>>, 0)>>
  ELSE [i \in 1..(IF Len(list) < slowReportLimit THEN Len(list)
                  ELSE slowReportLimit) |->
          Line("%s - %.2fs", list[i].Test, Hundredths(list[i].Elapsed))]

\* lines 1207-1231
genSlowTestsReport(passing, failing) ==
  <<Line("Slow failing tests:", <<>>, 0)>> \o Section(failing) \o
  <<Line("Slow passing tests:", <<>>, 0)>> \o Section(passing)

\* SlowTestsReport that returns the error of writeSlowTestsReport
SlowTestsReport_WriteFatal ==
  /\ pc = "sort"
  /\ \E sp \in SortedByElapsed(slowPassingTests),
        sf \in SortedByElapsed(slowFailingTests),
        w \in {"ok", "failed"} :
       /\ slowPassingTests' = sp
       /\ slowFailingTests' = sf
       /\ report' = genSlowTestsReport(sp, sf)
       /\ written' = w
       /\ pc' = IF w = "failed" THEN "postErr" ELSE "resolve"
  /\ UNCHANGED <<consumed, packageOutput, outstandingOutput, failures, init,
                 trustTimestamps, elapsedTotalSec, timedOutTestName,
                 timedOutEvent, curTestStart, lastTestName, lastEvent,
                 failedTestNames, posted>>

\* lines 1153-1164
SlowTestsReport ==
  /\ pc = "sort"
  /\ \E sp \in SortedByElapsed(slowPassingTests),
        sf \in SortedByElapsed(slowFailingTests),
        w \in {"ok", "failed"} :
       /\ slowPassingTests' = sp
       /\ slowFailingTests' = sf
       /\ report' = genSlowTestsReport(sp, sf)
       /\ written' = w
  /\ pc' = "resolve"
  /\ UNCHANGED <<consumed, packageOutput, outstandingOutput, failures, init,
                 trustTimestamps, elapsedTotalSec, timedOutTestName,
                 timedOutEvent, curTestStart, lastTestName, lastEvent,
                 failedTestNames, posted>>

\* Slowest with >= for the > of line 1174
Slowest_OrEqual ==
  IF Len(slowPassingTests) > 0 /\
     slowPassingTests[1].Elapsed >= slowFailingTests[1].Elapsed
  THEN slowPassingTests[1]
  ELSE slowFailingTests[1]

\* lines 1173-1176, slowFailingTests not empty
Slowest ==
  IF Len(slowPassingTests) > 0 /\
     slowPassingTests[1].Elapsed > slowFailingTests[1].Elapsed
  THEN slowPassingTests[1]
  ELSE slowFailingTests[1]

\* lines 1172-1202, the run timed out
PostTimeout ==
  /\ pc = "resolve"
  /\ timedOutTestName # <<>>
  /\ IF slowFailingTests = <<>>
     THEN pc' = "panicIndex" /\ UNCHANGED posted
     ELSE \E authorEmail \in AuthorEmails, err \in BOOLEAN :
            /\ posted' = Append(posted,
                 IF timedOutTestName = Slowest.Test
                 THEN Call("timed out under stress", timedOutTestName,
                           timedOutTestName, report, authorEmail, err)
                 ELSE Call("package timed out under stress", <<>>, Unknown,
                           report, "andreimatei1@gmail.com", err))
            /\ pc' = IF err THEN "postErr" ELSE "done"
  /\ UNCHANGED <<consumed, loopVars, failedTestNames, report, written>>

\* ReturnNil without the test of line 1172: the timeout is not reported
ReturnNil_SkipsTimeout ==
  /\ pc = "resolve"
  /\ pc' = "done"
  /\ UNCHANGED <<consumed, loopVars, postVars>>

\* ReturnNil that waits for a slow tests report that was written
ReturnNil_NeedsReport ==
  /\ pc = "resolve"
  /\ timedOutTestName = <<>>
  /\ written = "ok"
  /\ pc' = "done"
  /\ UNCHANGED <<consumed, loopVars, postVars>>

\* lines 1172 and 1204, the run did not time out
ReturnNil ==
  /\ pc = "resolve"
  /\ timedOutTestName = <<>>
  /\ pc' = "done"
  /\ UNCHANGED <<consumed, loopVars, postVars>>

-----------------------------------------------------------------------------
(* Streams *)

\* Events of a run of the test binary: timestamps are meaningful
Events ==
  { Event("output", NoTest, TextPkg, 0, 0),
    Event("fail", NoTest, <<>>, 0, 700),
    Event("run", TestA, <<>>, 1000, 0),
    Event("run", TestAx, <<>>, 1400, 0),
    Event("output", TestA, TextBoom, 1200, 0),
    Event("output", TestA, TextTimeout, 31400, 0),
    Event("output", TestB, TextTimeout, 2000, 0),
    Event("pass", TestA, <<>>, 0, 100),
    Event("pass", TestA, <<>>, 0, 2000),
    Event("skip", TestB, <<>>, 0, 0),
    Event("fail", TestA, <<>>, 0, 600),
    Event("fail", TestAx, <<>>, 0, 200),
    Event("fail", TestB, <<>>, 0, 2000) }

\* Events of a run under stress: the preamble carries the marker, and the
\* timeout texts have the forms the pattern of line 1028 tells apart
StressEvents ==
  { Event("output", NoTest, TextStress, 0, 0),
    Event("fail", NoTest, <<>>, 0, 700),
    Event("run", TestA, <<>>, 1000, 0),
    Event("output", TestA, TextBoom, 1200, 0),
    Event("output", TestA, TextTimeout, 1200, 0),
    Event("output", TestA, TextTimeoutM, 1200, 0),
    Event("output", TestA, TextTimeoutF, 1200, 0),
    Event("output", TestA, TextTimeoutH, 1200, 0),
    Event("output", TestA, TextTimeoutX, 1200, 0),
    Event("output", TestA, TextTimeoutE, 1200, 0),
    Event("pass", TestB, <<>>, 0, 45000),
    Event("fail", TestA, <<>>, 0, 600) }

Next ==
  \/ LookupEnv
  \/ \E te \in Events : Len(consumed) < MaxEvents /\ HandleEvent(te)
  \/ DecodeError
  \/ EndOfStream
  \/ PostPackageFailed
  \/ Consolidate
  \/ PostFailure
  \/ SlowTestsReport
  \/ PostTimeout
  \/ ReturnNil

Spec == Init /\ [][Next]_vars

NextStress ==
  \/ LookupEnv
  \/ \E te \in StressEvents : Len(consumed) < MaxEvents /\ HandleEvent(te)
  \/ DecodeError
  \/ EndOfStream
  \/ PostPackageFailed
  \/ Consolidate
  \/ PostFailure
  \/ SlowTestsReport
  \/ PostTimeout
  \/ ReturnNil

SpecStress == Init /\ [][NextStress]_vars

\* listFailures is one sequential function: a step that can be taken is
\* taken
LiveStress == SpecStress /\ WF_vars(NextStress)

\* the events of the runs with subtests: a subtest with output, a subtest
\* that times out, fast and slow terminal events
SubEvents ==
  { Event("fail", NoTest, <<>>, 0, 700),
    Event("run", TestAx, <<>>, 1000, 0),
    Event("output", TestA, <<"a">>, 1100, 0),
    Event("output", TestAx, TextBoom, 1200, 0),
    Event("output", TestAy, <<"y">>, 1300, 0),
    Event("output", TestAx, TextTimeout, 31400, 0),
    Event("fail", TestAx, <<>>, 0, 200),
    Event("fail", TestAy, <<>>, 0, 300),
    Event("fail", TestA, <<>>, 0, 100),
    Event("pass", TestA, <<>>, 0, 500),
    Event("pass", TestA, <<>>, 0, 600),
    Event("pass", TestAx, <<>>, 0, 900) }

NextSub ==
  \/ LookupEnv
  \/ \E te \in SubEvents : Len(consumed) < MaxEvents /\ HandleEvent(te)
  \/ DecodeError
  \/ EndOfStream
  \/ PostPackageFailed
  \/ Consolidate
  \/ PostFailure
  \/ SlowTestsReport
  \/ PostTimeout
  \/ ReturnNil

SpecSub == Init /\ [][NextSub]_vars

\* the events of the runs with several failed subtests: subtests of A, one of
\* them nested, with their output; the package event and the timeout only at
\* the head of the stream
SubtestEvents(n) ==
  { Event("output", TestA, <<"a">>, 1100, 0),
    Event("output", TestAx, TextBoom, 1200, 0),
    Event("output", TestAy, <<"y">>, 1300, 0),
    Event("output", TestAxz, <<"z">>, 1400, 0),
    Event("fail", TestA, <<>>, 0, 100),
    Event("fail", TestAx, <<>>, 0, 200),
    Event("fail", TestAy, <<>>, 0, 300),
    Event("fail", TestAxz, <<>>, 0, 100) }
  \cup (IF n = 1
        THEN { Event("fail", NoTest, <<>>, 0, 700),
               Event("output", TestB, TextTimeout, 31400, 0) }
        ELSE {})

NextSubtests ==
  \/ LookupEnv
  \/ \E te \in SubtestEvents(Len(consumed) + 1) :
        Len(consumed) < MaxSubtestEvents /\ HandleEvent(te)
  \/ DecodeError
  \/ EndOfStream
  \/ PostPackageFailed
  \/ Consolidate
  \/ PostFailure
  \/ SlowTestsReport
  \/ PostTimeout
  \/ ReturnNil

SpecSubtests == Init /\ [][NextSubtests]_vars

\* the events a long stream can start with: the package fails, a test passes,
\* a test fails, a test times out
FirstEvents ==
  { Event("fail", NoTest, <<>>, 0, 700),
    Event("pass", TestA, <<>>, 0, 1010),
    Event("fail", TestB, <<>>, 0, 1010),
    Event("output", TestA, TextTimeout, 31400, 0) }

\* the n-th event of a long stream, n > 1: the test of the first event again,
\* slower each time; after a timeout and after the package event, a failing
\* test
LongEvents(n) ==
  IF n = 1 THEN FirstEvents
  ELSE IF consumed[1].Action = "pass"
       THEN {Event("pass", TestA, <<>>, 0, 1000 + 10 * n)}
       ELSE {Event("fail", TestB, <<>>, 0, 1000 + 10 * n)}

NextLong ==
  \/ LookupEnv
  \/ \E te \in LongEvents(Len(consumed) + 1) :
        Len(consumed) < MaxSlowTests /\ HandleEvent(te)
  \/ DecodeError
  \/ EndOfStream
  \/ PostPackageFailed
  \/ Consolidate
  \/ PostFailure
  \/ SlowTestsReport
  \/ PostTimeout
  \/ ReturnNil

SpecLong == Init /\ [][NextLong]_vars

-----------------------------------------------------------------------------
(* Properties *)

Last(q) == q[Len(q)]

\* an output event of a test whose text contains the timeout marker
IsMarkerOutput(e) ==
  e.Action = "output" /\ e.Test # <<>> /\ Contains(e.Output, timeoutMsg)

StreamHasMarker == \E i \in 1..Len(consumed) : IsMarkerOutput(consumed[i])

StreamHasFail == \E i \in 1..Len(consumed) : consumed[i].Action = "fail"

\* the positions of the run events of the stream
RunEvents ==
  {i \in 1..Len(consumed) :
     consumed[i].Action = "run" /\ consumed[i].Test # <<>>}

\* the test started last has an output event that no later pass, skip or
\* fail event of that test follows
LastStartedLeftOutstanding ==
  /\ RunEvents # {}
  /\ LET r == CHOOSE i \in RunEvents : \A j \in RunEvents : j <= i
         t == consumed[r].Test
     IN \E i \in 1..Len(consumed) :
          /\ consumed[i].Action = "output" /\ consumed[i].Test = t
          /\ \A j \in (i+1)..Len(consumed) :
               ~(consumed[j].Test = t /\
                 consumed[j].Action \in {"pass", "skip", "fail"})

IsFailureReport(r) == r.title.what = "failed under stress"

IsTimeoutReport(r) ==
  r.title.what \in {"timed out under stress", "package timed out under stress"}

\* C1 as stated: a stream without fail event, without timeout marker in a
\* test's output and whose last event is not a fail has no report posted.
C1_Original ==
  (/\ ~StreamHasFail
   /\ ~StreamHasMarker
   /\ (consumed = <<>> \/ Last(consumed).Action # "fail"))
  => posted = <<>>

\* C1 amended: a stream without fail event and without timeout marker in a
\* test's output, in which the test started last has no output left
\* outstanding, has no report posted.
C1_NoFailureNoReport ==
  (/\ ~StreamHasFail
   /\ ~StreamHasMarker
   /\ ~LastStartedLeftOutstanding)
  => posted = <<>>

\* a test is started, prints and passes; the run completes without a report
C1_Witness ==
  /\ pc = "done"
  /\ ~StreamHasFail /\ ~StreamHasMarker /\ ~LastStartedLeftOutstanding
  /\ RunEvents # {}
  /\ \E i \in 1..Len(consumed) :
       consumed[i].Action = "output" /\ consumed[i].Test # <<>>
  /\ posted = <<>>

\* the text of the output events without test name, in arrival order
RECURSIVE PackageText(_)
PackageText(events) ==
  IF events = <<>> THEN <<>>
  ELSE (IF Head(events).Test = <<>> /\ Head(events).Action = "output"
        THEN Head(events).Output ELSE <<>>) \o PackageText(Tail(events))

\* C2: when after the reconciliation failures is empty, no timeout is
\* recorded and the last event decoded is a fail, exactly one report is
\* posted in the run: test name "(unknown)", message the package output in
\* arrival order, no author; so no failure report and no timeout report.
C2_PackageFailedReport ==
  (/\ pc \in {"sort", "resolve", "done", "postErr"}
   /\ consumed # <<>> /\ Last(consumed).Action = "fail"
   /\ DOMAIN failures = {}
   /\ timedOutTestName = <<>>)
  => /\ Len(posted) = 1
     /\ posted[1].title.what = "package failed under stress"
     /\ posted[1].testName = Unknown
     /\ posted[1].message = PackageText(consumed)
     /\ posted[1].authorEmail = ""

\* two package outputs and a package-level fail: the run completes with the
\* one report
C2_Witness ==
  /\ pc = "done"
  /\ Len(consumed) = 3 /\ Last(consumed).Action = "fail"
  /\ consumed[1].Action = "output" /\ consumed[2].Action = "output"
  /\ DOMAIN failures = {} /\ timedOutTestName = <<>>
  /\ Len(posted) = 1 /\ Len(posted[1].message) = 2

\* C3: the failure reports are posted in strictly ascending order of test
\* name (so none twice), and no reported name contains "/".
C3_FailureReportsSorted ==
  \A i \in 1..Len(posted) :
     IsFailureReport(posted[i]) =>
       /\ ~HasSlash(posted[i].testName)
       /\ \A j \in (i+1)..Len(posted) :
            IsFailureReport(posted[j]) =>
              StrLess(posted[i].testName, posted[j].testName)

\* B fails before a subtest of A does; A is reported before B
C3_Witness ==
  /\ Len(consumed) >= 2
  /\ consumed[1].Action = "fail" /\ consumed[1].Test = TestB
  /\ consumed[2].Action = "fail" /\ consumed[2].Test = TestAx
  /\ Len(posted) = 2
  /\ posted[1].testName = TestA /\ posted[2].testName = TestB

NumTimeoutReports ==
  Cardinality({i \in 1..Len(posted) : IsTimeoutReport(posted[i])})

\* C4: a run that consumes its stream and whose posts all succeed posts
\* exactly one timeout report when the timeout marker was seen in a test's
\* output and none otherwise; a timeout report is posted after the failure
\* reports (none is pending, none follows it) and after
\* writeSlowTestsReport was called.
C4_OneTimeoutReport ==
  /\ pc = "done" => NumTimeoutReports = (IF StreamHasMarker THEN 1 ELSE 0)
  /\ \A i \in 1..Len(posted) :
       IsTimeoutReport(posted[i]) =>
         /\ i = Len(posted)
         /\ failedTestNames = <<>>
         /\ written # "none"
         /\ StreamHasMarker

\* a test fails, another one times out: a failure report, then the timeout
\* report
C4_Witness ==
  /\ pc = "done"
  /\ StreamHasMarker
  /\ Len(posted) = 2
  /\ IsFailureReport(posted[1]) /\ IsTimeoutReport(posted[2])

SortedDescending(list) ==
  \A i \in 1..(Len(list) - 1) : list[i].Elapsed >= list[i+1].Elapsed

\* C5: with a timeout recorded, the timeout report names the timed out test,
\* with the slow tests report as message, exactly when the slowest test has
\* its name; otherwise it is the package-level report for "(unknown)".  The
\* slowest test is the head of the sorted failing list, or the head of the
\* sorted passing list when that one's elapsed is strictly greater.
C5_TimeoutCulprit ==
  \A i \in 1..Len(posted) :
     IsTimeoutReport(posted[i]) =>
       /\ SortedDescending(slowFailingTests)
       /\ SortedDescending(slowPassingTests)
       /\ slowFailingTests # <<>>
       /\ LET head == slowFailingTests[1]
              slowest ==
                IF slowPassingTests # <<>> /\
                   ~(slowPassingTests[1].Elapsed <= head.Elapsed)
                THEN slowPassingTests[1] ELSE head
          IN IF slowest.Test = timedOutTestName
             THEN /\ posted[i].title.what = "timed out under stress"
                  /\ posted[i].title.test = timedOutTestName
                  /\ posted[i].testName = timedOutTestName
                  /\ posted[i].message = report
             ELSE /\ posted[i].title.what = "package timed out under stress"
                  /\ posted[i].testName = Unknown
                  /\ posted[i].message = report

\* a passing test took as long as the timed out test: the timed out test is
\* still the one blamed
C5_Witness ==
  /\ \E i \in 1..Len(posted) :
       posted[i].title.what = "timed out under stress"
  /\ slowPassingTests # <<>> /\ slowFailingTests # <<>>
  /\ slowPassingTests[1].Elapsed = slowFailingTests[1].Elapsed
  /\ slowPassingTests[1].Test # slowFailingTests[1].Test

\* C6: once a timeout is recorded, a pass or skip event of a test aborts the
\* run: the step ends in the aborted state without touching the outstanding
\* output, the failures or the slow test lists, and the aborted state
\* consumes no event.
C6_PassAfterTimeoutAborts ==
  [][/\ (/\ pc = "loop"
         /\ timedOutTestName # <<>>
         /\ consumed' # consumed
         /\ Last(consumed').Action \in {"pass", "skip"}
         /\ Last(consumed').Test # <<>>)
        => /\ pc' = "panic"
           /\ UNCHANGED <<outstandingOutput, failures, slowPassingTests,
                          slowFailingTests, posted, written>>
     /\ pc = "panic" => (pc' = "panic" /\ consumed' = consumed)]_vars

\* a test passes after the timeout of another one was recorded
C6_Witness ==
  /\ pc = "panic"
  /\ Last(consumed).Action \in {"pass", "skip"}
  /\ \E i \in 1..(Len(consumed) - 1) : IsMarkerOutput(consumed[i])

\* C7: until the stream is exhausted nothing is posted and no slow tests
\* report is written; so a run that ends in a decode error or in the abort of
\* a pass after a timeout has posted and written nothing.
C7_NothingBeforeEndOfStream ==
  pc \in {"start", "envErr", "loop", "decodeErr", "panic", "fatal"}
    => posted = <<>> /\ written = "none" /\ report = <<>>

\* a decode error after a test failed and was recorded
C7_Witness ==
  /\ pc = "decodeErr"
  /\ DOMAIN failures # {}
  /\ slowFailingTests # <<>>

\* C8: a call of f that returns an error is the last one, and listFailures
\* returns an error; it returns that error only after such a call.
C8_PostErrorStops ==
  /\ \A i \in 1..Len(posted) :
       posted[i].err => (i = Len(posted) /\ pc = "postErr")
  /\ pc = "postErr" => (posted # <<>> /\ Last(posted).err)

\* the first of two failure reports cannot be posted and a timeout was
\* recorded: the second report and the timeout report are not posted
C8_Witness ==
  /\ pc = "postErr"
  /\ Len(posted) = 1
  /\ Len(failedTestNames) = 2
  /\ timedOutTestName # <<>>

\* C9 as stated: once timedOutTestName is set, timedOutTestName and
\* timedOutEvent never change.
C9_Original ==
  [][timedOutTestName # <<>>
       => UNCHANGED <<timedOutTestName, timedOutEvent>>]_vars

\* C9 amended: once timedOutTestName is set it is never cleared;
\* timedOutTestName and timedOutEvent change only when an output event of a
\* test with the timeout marker is consumed, and each such event overwrites
\* them with its own test and event.
C9_LastTimeoutWins ==
  [][timedOutTestName # <<>> =>
       /\ timedOutTestName' # <<>>
       /\ IF consumed' # consumed /\ IsMarkerOutput(Last(consumed'))
          THEN /\ timedOutTestName' = Last(consumed').Test
               /\ pc' = "loop" =>
                    /\ timedOutEvent'.Test = Last(consumed').Test
                    /\ timedOutEvent'.Output = Last(consumed').Output
                    /\ timedOutEvent'.Time = Last(consumed').Time
          ELSE UNCHANGED <<timedOutTestName, timedOutEvent>>]_vars

\* the marker is seen in the output of A and later in the output of B: B is
\* the timed out test
C9_Witness ==
  /\ pc = "loop"
  /\ timedOutTestName = TestB
  /\ timedOutEvent.Test = TestB
  /\ \E i \in 1..Len(consumed) : \E j \in (i+1)..Len(consumed) :
       /\ IsMarkerOutput(consumed[i]) /\ consumed[i].Test = TestA
       /\ IsMarkerOutput(consumed[j]) /\ consumed[j].Test = TestB

\* C10 as stated: with untrusted timestamps the computation of the elapsed
\* time of a timeout never aborts the run, and a text after the marker that
\* gives no number followed by s or m gives the elapsed -1 (in milliseconds
\* here) with the loop going on.
C10_Original ==
  /\ pc # "fatal"
  /\ (/\ consumed # <<>>
      /\ ~trustTimestamps
      /\ IsMarkerOutput(Last(consumed))
      /\ Last(consumed).Output \in {TextTimeoutH, TextTimeoutX, TextTimeoutE})
     => (pc = "loop" /\ timedOutEvent.Elapsed = -1000)

\* the positions of the pass, skip and fail events of test t
TerminalEvents(t) ==
  {i \in 1..Len(consumed) :
     consumed[i].Test = t /\ consumed[i].Action \in {"pass", "skip", "fail"}}

FailEvents(t) ==
  {i \in 1..Len(consumed) : consumed[i].Test = t /\ consumed[i].Action = "fail"}

Max(S) == CHOOSE i \in S : \A j \in S : j <= i

\* the texts of the output events of test t at the positions from..to
RECURSIVE OutputBetween(_, _, _)
OutputBetween(t, from, to) ==
  IF from > to THEN <<>>
  ELSE (IF consumed[from].Test = t /\ consumed[from].Action = "output"
        THEN consumed[from].Output ELSE <<>>) \o OutputBetween(t, from + 1, to)

\* the output of test t between its fail event at position f and the
\* terminal event of t before that one
OutputBeforeFail(t, f) ==
  LET before == {i \in TerminalEvents(t) : i < f}
  IN OutputBetween(t, IF before = {} THEN 1 ELSE Max(before) + 1, f)

\* the stream has an event of a subtest of t
HasSubtestEvents(t) ==
  \E i \in 1..Len(consumed) :
     HasSlash(consumed[i].Test) /\ SplitN2(consumed[i].Test)[1] = t

\* C11 as stated: the failure report of a top-level test that has a fail
\* event and no subtest carries as message the output of that test received
\* before a fail event of it and after the terminal event before that one, in
\* arrival order, and nothing else.
C11_Original ==
  \A i \in 1..Len(posted) :
     (/\ IsFailureReport(posted[i])
      /\ FailEvents(posted[i].testName) # {}
      /\ ~HasSubtestEvents(posted[i].testName))
     => \E f \in FailEvents(posted[i].testName) :
           posted[i].message = OutputBeforeFail(posted[i].testName, f)

\* the keys of f that are subtests
SubtestKeys(f) == {t \in DOMAIN f : HasSlash(t)}

\* the parents of the subtests of f that are no keys of f
CreatedParents(f) == {SplitN2(t)[1] : t \in SubtestKeys(f)} \ DOMAIN f

NumFailureReports ==
  Cardinality({i \in 1..Len(posted) : IsFailureReport(posted[i])})

\* listFailures has gone past the posts of the failure reports without an
\* error
FailuresPosted == pc \in {"sort", "resolve", "done"}

\* C12 as stated: the number of failure reports posted is the number of
\* entries of failures before the consolidation minus the number of subtest
\* entries folded into parents.
C12_Original ==
  [][/\ (pc = "reconciled" /\ pc' \in {"post", "sort"})
        => Cardinality(DOMAIN failures') =
             Cardinality(DOMAIN failures) - Cardinality(SubtestKeys(failures))
     /\ FailuresPosted' => NumFailureReports' = Cardinality(DOMAIN failures')
    ]_vars

\* C12 amended: when every post succeeds, the number of failure reports
\* posted is the number of entries of failures before the consolidation,
\* minus the subtest entries folded into parents, plus the parent entries the
\* folding created.
C12_ReportCount ==
  [][/\ (pc = "reconciled" /\ pc' \in {"post", "sort"})
        => Cardinality(DOMAIN failures') =
             Cardinality(DOMAIN failures) - Cardinality(SubtestKeys(failures))
               + Cardinality(CreatedParents(failures))
     /\ (pc = "reconciled" /\ pc' = "post")
        => Len(failedTestNames') = Cardinality(DOMAIN failures')
     /\ pc' = "post"
        => NumFailureReports' + Len(failedTestNames') =
             Cardinality(DOMAIN failures')
     /\ FailuresPosted' => NumFailureReports' = Cardinality(DOMAIN failures')
    ]_vars

\* only a subtest of A failed, and B failed: two reports, the one of A from
\* an entry the consolidation created
C12_Witness ==
  /\ pc = "done"
  /\ FailEvents(TestAx) # {} /\ FailEvents(TestA) = {} /\ FailEvents(TestB) # {}
  /\ NumFailureReports = 2

\* C13: the consolidation applied to the map it produced changes no key and
\* no event sequence.
C13_ConsolidationIdempotent ==
  pc \in {"post", "sort", "resolve", "done", "postErr"}
    => Consolidations(failures) = {failures}

\* a subtest of A failed and its output was folded into A, after the output
\* of A
C13_Witness ==
  /\ pc = "post"
  /\ FailEvents(TestAx) # {}
  /\ DOMAIN failures = {TestA}
  /\ Len(failures[TestA]) = 2

\* the lines a section of the report has to have for the list
Listed(list) ==
  IF list = <<>> THEN <<Line("<none>", <<>>, 0)>>
  ELSE [i \in 1..(IF Len(list) < 20 THEN Len(list) ELSE 20) |->
          Line("%s - %.2fs", list[i].Test, Hundredths(list[i].Elapsed))]

\* C14: once the slow tests are ranked, both lists are in non-increasing
\* order of elapsed time and each section of the report lists the first
\* min(20, length) entries of its list in order, or <none> for an empty list.
C14_SlowTestsReport ==
  written # "none"
    => /\ SortedDescending(slowPassingTests)
       /\ SortedDescending(slowFailingTests)
       /\ report = <<Line("Slow failing tests:", <<>>, 0)>> \o
                     Listed(slowFailingTests) \o
                   <<Line("Slow passing tests:", <<>>, 0)>> \o
                     Listed(slowPassingTests)

\* more than 20 failing tests and no passing one: 20 lines and <none>
C14_Witness ==
  /\ written # "none"
  /\ Len(slowFailingTests) > 20
  /\ slowPassingTests = <<>>
  /\ Len(report) = 23

\* the stream has a timeout message in the output of test t
TimedOut(t) ==
  \E i \in 1..Len(consumed) : IsMarkerOutput(consumed[i]) /\ consumed[i].Test = t

C16_WriteFailureNotFatal ==
  written = "failed"
    => /\ pc \in {"resolve", "done", "postErr"}
       /\ pc = "postErr"
          => posted # <<>> /\ Last(posted).err /\ IsTimeoutReport(Last(posted))
       /\ pc \in {"done", "postErr"}
          => NumTimeoutReports = (IF timedOutTestName # <<>> THEN 1 ELSE 0)
       /\ \A i \in 1..Len(posted) :
             IsTimeoutReport(posted[i])
               => /\ posted[i].message = report
                  /\ posted[i].testName =
                       (IF Slowest.Test = timedOutTestName
                        THEN timedOutTestName ELSE Unknown)

\* the write failed, the timeout report was posted and nil returned
C16_Witness ==
  /\ written = "failed"
  /\ pc = "done"
  /\ NumTimeoutReports = 1
  /\ Last(posted).testName = timedOutTestName

\* test t has a run event that no pass, skip or fail event of t follows
Running(t) ==
  \E i \in 1..Len(consumed) :
     /\ consumed[i].Action = "run" /\ consumed[i].Test = t
     /\ \A j \in (i+1)..Len(consumed) : j \notin TerminalEvents(t)

\* C17 as stated: while the stream is read, a test is a key of
\* outstandingOutput from its run event to its pass, skip or fail event, and
\* no key once that event is processed.
C17_Original ==
  pc = "loop"
    => \A t \in {consumed[i].Test : i \in 1..Len(consumed)} \ {NoTest} :
          /\ Running(t) => t \in DOMAIN outstandingOutput
          /\ Len(consumed) \in TerminalEvents(t)
             => t \notin DOMAIN outstandingOutput

\* the sum of the positive elapsed times of the events at the positions 1..n
\* that have a test name, without "/", and no timeout message before them
RECURSIVE SumOfTests(_)
SumOfTests(n) ==
  IF n = 0 THEN 0
  ELSE SumOfTests(n - 1) +
       (IF /\ consumed[n].Test # NoTest
           /\ ~HasSlash(consumed[n].Test)
           /\ consumed[n].Elapsed > 0
           /\ \A j \in 1..(n - 1) : ~IsMarkerOutput(consumed[j])
        THEN consumed[n].Elapsed ELSE 0)

\* C18 as stated: elapsedTotalSec is the sum of the positive elapsed times
\* of the events of top-level tests consumed before a timeout is recorded;
\* events without a test name and events of subtests add nothing.
C18_Original ==
  pc \notin {"start", "envErr", "fatal"} => elapsedTotalSec = SumOfTests(Len(consumed))

\* the last test started and what it has outstanding, by the stream
LastStarted == consumed[Max(RunEvents)].Test

Outstanding(t) ==
  LET S == {i \in 1..Len(consumed) :
              /\ consumed[i].Action = "output" /\ consumed[i].Test = t
              /\ \A j \in TerminalEvents(t) : j < i}
      RECURSIVE From(_)
      From(i) == IF i > Len(consumed) THEN <<>>
                 ELSE (IF i \in S THEN <<consumed[i]>> ELSE <<>>) \o From(i + 1)
  IN From(1)

\* C19 as stated: at the end of the stream, unless the timed out test is
\* still outstanding, the last test started is recorded in failures with its
\* outstanding output when it is outstanding and the last event is no fail;
\* when the last event is a fail, failures gets no entry.
C19_Original ==
  [][(/\ pc = "loop" /\ pc' = "reconciled"
      /\ ~(timedOutTestName # <<>> /\
           timedOutTestName \in DOMAIN outstandingOutput))
     => IF lastEvent.Action = "fail"
        THEN failures' = failures
        ELSE lastTestName \in DOMAIN outstandingOutput
             => failures' = Put(failures, lastTestName,
                                outstandingOutput[lastTestName])
    ]_vars

\* C19 amended: at the end of a stream without a timeout, the last test
\* started is recorded in failures with its outstanding output when it is
\* outstanding, whatever the last event is; in every other case failures
\* stays as it is.
C19_LastTestFailed ==
  [][(pc = "loop" /\ pc' = "reconciled")
     => IF ~StreamHasMarker /\ LastStartedLeftOutstanding
        THEN failures' = Put(failures, LastStarted, Outstanding(LastStarted))
        ELSE failures' = failures
    ]_vars

\* the stream ended with the fail event of another test, and the last test
\* started was recorded with its output
C19_Witness ==
  /\ pc = "reconciled"
  /\ consumed # <<>> /\ Last(consumed).Action = "fail"
  /\ ~StreamHasMarker /\ LastStartedLeftOutstanding
  /\ LastStarted \in DOMAIN failures
  /\ failures[LastStarted] # <<>>
  /\ FailEvents(LastStarted) = {}

\* C20: at the end of the stream, with a timeout recorded and the timed out
\* test a key of outstandingOutput, timedOutEvent is appended once to the
\* failing list and the test leaves outstandingOutput; failures and the
\* other outstanding tests stay as they are.
C20_TimedOutTestOutstanding ==
  [][(/\ pc = "loop" /\ pc' = "reconciled"
      /\ timedOutTestName # <<>>
      /\ timedOutTestName \in DOMAIN outstandingOutput)
     => /\ slowFailingTests' = Append(slowFailingTests, timedOutEvent)
        /\ slowPassingTests' = slowPassingTests
        /\ DOMAIN outstandingOutput' =
             DOMAIN outstandingOutput \ {timedOutTestName}
        /\ \A t \in DOMAIN outstandingOutput' :
              outstandingOutput'[t] = outstandingOutput[t]
        /\ failures' = failures
    ]_vars

\* B timed out and never ended, A has output outstanding and a test failed
C20_Witness ==
  /\ pc = "reconciled"
  /\ timedOutTestName = TestB
  /\ slowFailingTests # <<>> /\ Last(slowFailingTests) = timedOutEvent
  /\ IsMarkerOutput(timedOutEvent)
  /\ TestB \notin DOMAIN outstandingOutput
  /\ TestA \in DOMAIN outstandingOutput

\* the step consumes an event
Consumes == pc = "loop" /\ Len(consumed') = Len(consumed) + 1

\* C21: with untrusted timestamps, a timeout message with the magnitude N and
\* the unit s or m sets the elapsed time of timedOutEvent to N seconds, or
\* 60 * N seconds, minus elapsedTotalSec as it is when the event is consumed.
C21_StressElapsed ==
  [][(/\ Consumes
      /\ IsMarkerOutput(Last(consumed'))
      /\ ~trustTimestamps')
     => LET text == Last(consumed').Output IN
        /\ text = TextTimeout
           => timedOutEvent'.Elapsed = 30 * 1000 - elapsedTotalSec
        /\ text = TextTimeoutM
           => timedOutEvent'.Elapsed = 2 * 60 * 1000 - elapsedTotalSec
        /\ text = TextTimeoutF
           => timedOutEvent'.Elapsed = 1500 - elapsedTotalSec
        /\ text \in {TextTimeout, TextTimeoutM, TextTimeoutF}
           => /\ timedOutEvent'.Test = Last(consumed').Test
              /\ timedOutEvent'.Output = text
              /\ pc' = "loop"
    ]_vars

\* B took 45 s and the message says 2m: 75 s
C21_Witness ==
  /\ ~trustTimestamps
  /\ elapsedTotalSec = 45000
  /\ timedOutEvent.Output = TextTimeoutM
  /\ timedOutEvent.Elapsed = 75000

\* C22: with trusted timestamps, the elapsed time of timedOutEvent is the time
\* of the timeout event minus the time of the last run event before it, of
\* whatever test.
C22_TrustedElapsed ==
  [][(/\ Consumes
      /\ IsMarkerOutput(Last(consumed'))
      /\ trustTimestamps'
      /\ RunEvents # {})
     => /\ timedOutEvent'.Elapsed =
             Last(consumed').Time - consumed[Max(RunEvents)].Time
        /\ timedOutEvent'.Test = Last(consumed').Test
    ]_vars

\* A started at 1.0 s, its subtest at 1.4 s, the timeout came at 31.4 s
C22_Witness ==
  /\ trustTimestamps
  /\ timedOutTestName = TestA
  /\ Len(consumed) = 3
  /\ consumed[1].Action = "run" /\ consumed[1].Test = TestA
  /\ consumed[2].Action = "run" /\ consumed[2].Test = TestAx
  /\ timedOutEvent.Elapsed = 30000

\* C23 as stated: once a timeout message of test T was consumed, the fail
\* event of T with a positive elapsed time is appended to the failing list
\* with the elapsed time of timedOutEvent in place of its own.
C23_Original ==
  [][(/\ Consumes
      /\ TimedOut(Last(consumed').Test)
      /\ Last(consumed').Action = "fail"
      /\ Last(consumed').Elapsed > 0)
     => slowFailingTests' =
          Append(slowFailingTests,
                 [Last(consumed') EXCEPT !.Elapsed = timedOutEvent.Elapsed])
    ]_vars

\* C23 amended: the fail event of the test the recorded timeout is for (the
\* test of the last timeout message), with a positive elapsed time, is
\* processed with the elapsed time of timedOutEvent in place of its own: the
\* entry appended to the failing list carries it.
C23_TimedOutElapsedReplaced ==
  [][(/\ Consumes
      /\ timedOutTestName # <<>>
      /\ Last(consumed').Test = timedOutTestName
      /\ Last(consumed').Action = "fail"
      /\ Last(consumed').Elapsed > 0)
     => /\ slowFailingTests' =
             Append(slowFailingTests,
                    [Last(consumed') EXCEPT !.Elapsed = timedOutEvent.Elapsed])
        /\ timedOutEvent' = timedOutEvent
    ]_vars

\* A timed out after 30.4 s and its fail event reports 0.6 s
C23_Witness ==
  /\ timedOutTestName = TestA
  /\ consumed # <<>>
  /\ Last(consumed).Action = "fail" /\ Last(consumed).Test = TestA
  /\ Last(consumed).Elapsed = 600
  /\ timedOutEvent.Elapsed = 30400
  /\ slowFailingTests # <<>>
  /\ Last(slowFailingTests).Action = "fail"
  /\ Last(slowFailingTests).Elapsed = 30400

\* C24: a pass or skip event consumed with no timeout recorded takes its test
\* out of outstandingOutput, leaves failures and the failing list as they
\* are, and is appended to the passing list exactly when its elapsed time is
\* more than 0.5 s and its test has no "/" in its name.
C24_PassSkip ==
  [][(/\ Consumes
      /\ timedOutTestName = <<>>
      /\ Last(consumed').Test # NoTest
      /\ Last(consumed').Action \in {"pass", "skip"})
     => LET te == Last(consumed') IN
        /\ DOMAIN outstandingOutput' = DOMAIN outstandingOutput \ {te.Test}
        /\ \A t \in DOMAIN outstandingOutput' :
              outstandingOutput'[t] = outstandingOutput[t]
        /\ failures' = failures
        /\ slowFailingTests' = slowFailingTests
        /\ slowPassingTests' =
             IF te.Elapsed > 500 /\ ~HasSlash(te.Test)
             THEN Append(slowPassingTests, te)
             ELSE slowPassingTests
    ]_vars

\* A had output and passed in exactly 0.5 s, then in 0.6 s and its subtest
\* in 0.9 s: one slow entry
C24_Witness ==
  /\ pc = "loop"
  /\ Len(consumed) = 3
  /\ consumed[1].Action = "output"
  /\ consumed[2].Action = "pass" /\ consumed[2].Elapsed = 500
  /\ consumed[3].Action = "pass" /\ consumed[3].Elapsed = 600
  /\ Len(slowPassingTests) = 1 /\ slowPassingTests[1].Elapsed = 600
  /\ outstandingOutput = EmptyMap

\* C25: trustTimestamps and init start as true and only ever change to
\* false; trustTimestamps changes only on an event that, like all events
\* before it, has no test name; from the first event with a test name on,
\* init is false and trustTimestamps stays as it is.
C25_TrustOnlyInPreamble ==
  [][/\ trustTimestamps' # trustTimestamps
        => /\ trustTimestamps /\ ~trustTimestamps'
           /\ Consumes
           /\ \A i \in 1..Len(consumed') : consumed'[i].Test = NoTest
           /\ Contains(Last(consumed').Output, stressMarker)
     /\ init' # init => init /\ ~init'
     /\ (\E i \in 1..Len(consumed') : consumed'[i].Test # NoTest) => ~init'
     /\ pc = "start" => init /\ trustTimestamps
    ]_vars

\* the text of the stress wrapper came after the first test had started:
\* the timestamps are still trusted
C25_Witness ==
  /\ trustTimestamps /\ ~init
  /\ \E i, j \in 1..Len(consumed) :
       /\ i < j
       /\ consumed[i].Test # NoTest
       /\ Contains(consumed[j].Output, stressMarker)

\* listFailures has returned or the process has ended
Terminated == pc \in {"done", "decodeErr", "postErr", "fatal", "panic"}

\* C26: every run that starts to read the stream consumes the events one by
\* one in the order of their arrival and ends: with nil after the reports,
\* with a decode error, with a fatal abort or with the error of a post.
C26_Terminates ==
  /\ [][consumed' # consumed
        => pc = "loop" /\ SubSeq(consumed', 1, Len(consumed)) = consumed
           /\ Len(consumed') = Len(consumed) + 1]_vars
  /\ (pc = "loop") ~> Terminated

\* a stream of MaxEvents events was read to its end and nil returned
C26_Witness ==
  /\ pc = "done"
  /\ Len(consumed) = MaxEvents
  /\ \E i \in 1..Len(posted) : IsFailureReport(posted[i])

\* the positions of the timeout messages in the stream
MarkerEvents == {i \in 1..Len(consumed) : IsMarkerOutput(consumed[i])}

\* C27: when the culprit of a recorded timeout is resolved, the failing list
\* has an entry of the timed out test, so that its head exists: after a fail
\* event of that test, without one, and after a second timeout message.
C27_FailingListHasTimedOut ==
  /\ pc # "panicIndex"
  /\ (pc \in {"reconciled", "post", "sort", "resolve"} /\ timedOutTestName # <<>>)
     => \E i \in 1..Len(slowFailingTests) :
           slowFailingTests[i].Test = timedOutTestName

\* two timeout messages, of A and then of B, and no fail event of B
C27_Witness ==
  /\ pc = "resolve"
  /\ timedOutTestName = TestB
  /\ Cardinality(MarkerEvents) = 2
  /\ FailEvents(TestB) = {}
  /\ slowFailingTests # <<>> /\ slowFailingTests[1].Test = TestB

\* the top-level test that t is, or is a subtest of
TopLevel(t) == SplitN2(t)[1]

\* the test the recorded timeout is for when the event at position n arrives
RecordedBefore(n) ==
  LET S == {i \in MarkerEvents : i < n}
  IN IF S = {} THEN NoTest ELSE consumed[Max(S)].Test

\* C30 as stated: with a timeout recorded for test T, no failure report is
\* posted for T or for the top-level test T is a subtest of.
C30_Original ==
  timedOutTestName # <<>>
    => \A i \in 1..Len(posted) :
          IsFailureReport(posted[i])
            => posted[i].testName # TopLevel(timedOutTestName)

\* C30 amended: the fail event of the test the recorded timeout is for adds
\* no failure; with a timeout recorded for test T, a failure report for T or
\* the top-level test above it is posted only when the stream has another
\* fail event of a test under that top-level test: of T before its timeout
\* was recorded, of the top-level test, or of another subtest.
C30_TimedOutNotFailed ==
  timedOutTestName # <<>>
    => \A i \in 1..Len(posted) :
          (IsFailureReport(posted[i]) /\
           posted[i].testName = TopLevel(timedOutTestName))
            => \E j \in 1..Len(consumed) :
                  /\ consumed[j].Action = "fail"
                  /\ consumed[j].Test # NoTest
                  /\ TopLevel(consumed[j].Test) = TopLevel(timedOutTestName)
                  /\ RecordedBefore(j) # consumed[j].Test

\* the subtest timed out and then failed: the timeout report and no failure
\* report
C30_Witness ==
  /\ pc = "done"
  /\ timedOutTestName = TestAx
  /\ FailEvents(TestAx) # {}
  /\ NumFailureReports = 0 /\ NumTimeoutReports = 1

\* the step is the consolidation of lines 1119-1134
Consolidates == pc = "reconciled" /\ pc' \in {"post", "sort"}

\* C28 as stated: the reports posted are a function of the stream: whatever
\* the order in which the map of failures is ranged over, the consolidation
\* leaves the same entries, with the output of the subtests of a parent in
\* the same order.
C28_Original ==
  [][Consolidates => \A g \in Consolidations(failures) : g = failures']_vars

\* how often e is in the sequence q
Count(e, q) == Cardinality({i \in 1..Len(q) : q[i] = e})

\* how often e is in the entries of f under the keys K
RECURSIVE CountIn(_, _, _)
CountIn(e, f, K) ==
  IF K = {} THEN 0
  ELSE LET k == CHOOSE x \in K : TRUE
       IN Count(e, f[k]) + CountIn(e, f, K \ {k})

AllEvents(f) == UNION {{f[k][i] : i \in 1..Len(f[k])} : k \in DOMAIN f}

\* C29: the consolidation leaves one entry for every top-level test that has
\* an entry itself or for a subtest, at any depth, and every event is in the
\* entry of a top-level test as often as it was in the entries of that test
\* and its subtests before.
C29_ConsolidationConserves ==
  [][Consolidates
     => /\ DOMAIN failures' = {TopLevel(k) : k \in DOMAIN failures}
        /\ \A p \in DOMAIN failures' :
              \A e \in AllEvents(failures) \cup AllEvents(failures') :
                 Count(e, failures'[p]) =
                   CountIn(e, failures,
                           {k \in DOMAIN failures : TopLevel(k) = p})
    ]_vars

\* A/x and A/x/z failed with output and A did not fail: the entry made for A
\* has the two events
C29_Witness ==
  /\ pc = "post"
  /\ FailEvents(TestA) = {} /\ FailEvents(TestAx) # {} /\ FailEvents(TestAxz) # {}
  /\ DOMAIN failures = {TestA}
  /\ Len(failures[TestA]) = 2
  /\ failures[TestA][1] # failures[TestA][2]

IsPackageFailedReport(r) == r.title.what = "package failed under stress"

\* C31: the "package failed" report is posted only when the last event of
\* the stream is a fail event without test name; when the last event is the
\* fail event of a named test and no timeout is recorded, failures has an
\* entry and the reports of the failed tests are posted, not that one.
C31_PackageFailedOnlyForPackage ==
  /\ \A i \in 1..Len(posted) :
        IsPackageFailedReport(posted[i])
          => /\ consumed # <<>>
             /\ Last(consumed).Action = "fail"
             /\ Last(consumed).Test = NoTest
  /\ (/\ pc \in {"reconciled", "post", "sort", "resolve", "done", "postErr"}
      /\ consumed # <<>>
      /\ Last(consumed).Action = "fail"
      /\ Last(consumed).Test # NoTest
      /\ timedOutTestName = <<>>)
     => /\ DOMAIN failures # {}
        /\ \A i \in 1..Len(posted) : IsFailureReport(posted[i])
        /\ pc \in {"sort", "resolve", "done"}
           => NumFailureReports = Cardinality(DOMAIN failures)

\* the package failed and then A did: the report of A and no package report
C31_Witness ==
  /\ pc = "done"
  /\ Len(consumed) >= 2
  /\ consumed[1].Action = "fail" /\ consumed[1].Test = NoTest
  /\ Last(consumed).Action = "fail" /\ Last(consumed).Test = TestA
  /\ timedOutTestName = <<>>
  /\ NumFailureReports = 1
  /\ \A i \in 1..Len(posted) : ~IsPackageFailedReport(posted[i])

=============================================================================
